---- MODULE Spec2Model ----
(***************************************************************************)
(* Model of imageatm.components.evaluation.Evaluation: construction        *)
(* (plot-mode detection, best-checkpoint selection, evaluation directory), *)
(* the run() pipeline, the four plotting methods, the report builder and   *)
(* the example lookup.                                                     *)
(*                                                                         *)
(* The object's attributes are the function `self`: its domain is the set  *)
(* of attributes assigned so far, so reading an attribute that was never   *)
(* assigned is an AttributeError, as in Python.  Every public or private   *)
(* method is one action; what a call did (sub-calls in order, log          *)
(* messages, figures, metric computations, images loaded, the exception    *)
(* raised) is recorded in `trace`, its return value in `ret`, and the      *)
(* exception that left the top-level call in `error`.  A call starts only  *)
(* when the caller has taken the previous call's result (Return).          *)
(*                                                                         *)
(* Inputs: test sets are non-empty with labels in 0..n_classes-1, class    *)
(* names are distinct and the mapping's keys are "0".."n_classes-1".       *)
(*                                                                         *)
(* External libraries are modelled by what they do on the values the code  *)
(* hands them: np.argmax (first maximum; ValueError on an empty list),     *)
(* np.bincount (length max+1), plt.bar (NumPy broadcasting of x and        *)
(* height), sklearn's classification_report (ValueError when target_names  *)
(* and the labels present differ in number).  Model inference, notebook    *)
(* execution and the exporters are taken to succeed.                       *)
(***************************************************************************)
EXTENDS Integers, Sequences, FiniteSets, TLC

\* ---------------------------------------------------------------- bounds
MaxFiles == 2
MaxSamples == 2
MaxClasses == 2

\* ------------------------------------------------------------- constants
MAX_N_CLASSES == 20

\* ------------------------------------------------- characters and strings
\* File names are sequences of one-character strings; Ord is the code point.
Ord ==
    ("." :> 46) @@ ("0" :> 48) @@ ("1" :> 49) @@ ("2" :> 50) @@ ("5" :> 53)
    @@ ("7" :> 55) @@ ("8" :> 56) @@ ("9" :> 57) @@ ("_" :> 95) @@ ("a" :> 97)
    @@ ("b" :> 98) @@ ("d" :> 100) @@ ("e" :> 101) @@ ("f" :> 102)
    @@ ("h" :> 104) @@ ("m" :> 109) @@ ("s" :> 115) @@ ("t" :> 116)
    @@ ("v" :> 118)

File_072 == <<"m", "_", "e", "_", "v", "_", "0", ".", "7", "2", "_", "a", ".", "h", "d", "f", "5">>
File_085a == <<"m", "_", "e", "_", "v", "_", "0", ".", "8", "5", "_", "a", ".", "h", "d", "f", "5">>
File_085b == <<"m", "_", "e", "_", "v", "_", "0", ".", "8", "5", "_", "b", ".", "h", "d", "f", "5">>
File_08512 == <<"m", "_", "e", "_", "v", "_", "0", ".", "8", "5", "1", "2", "_", "a", ".", "h", "d", "f", "5">>
File_08519 == <<"m", "_", "e", "_", "v", "_", "0", ".", "8", "5", "1", "9", "_", "a", ".", "h", "d", "f", "5">>
File_08 == <<"m", "_", "e", "_", "v", "_", "0", ".", "8", "_", "a", ".", "h", "d", "f", "5">>
File_best == <<"b", "e", "s", "t", ".", "h", "d", "f", "5">>

\* The checkpoint names a models directory is filled from.
FileNames == {File_072, File_085a, File_085b, File_08512, File_08519, File_08, File_best}

\* str.split(sep): the fields between the separators, in order.
RECURSIVE SplitFrom(_, _, _, _)
SplitFrom(s, sep, i, cur) ==
    IF i > Len(s) THEN <<cur>>
    ELSE IF s[i] = sep THEN <<cur>> \o SplitFrom(s, sep, i + 1, <<>>)
    ELSE SplitFrom(s, sep, i + 1, Append(cur, s[i]))

Split(s, sep) == SplitFrom(s, sep, 1, <<>>)

\* s[:k]
Prefix(s, k) == SubSeq(s, 1, IF Len(s) < k THEN Len(s) ELSE k)

\* a < b for strings: the first differing character decides, a proper prefix
\* is smaller (NumPy pads the shorter string with NUL).
StrLess(a, b) ==
    \E i \in 1..Len(b) :
        /\ \A j \in 1..(i - 1) : j <= Len(a) /\ a[j] = b[j]
        /\ \/ i > Len(a)
           \/ i <= Len(a) /\ Ord[a[i]] < Ord[b[i]]

\* np.argmax over a non-empty list: the scan keeps the first maximum.
ArgMaxLastWins(xs) ==
    LET scan[i \in 1..Len(xs)] ==
            IF i = 1 THEN 1
            ELSE IF ~StrLess(xs[i], xs[scan[i - 1]]) THEN i ELSE scan[i - 1]
    IN  scan[Len(xs)]

ArgMax(xs) ==
    LET scan[i \in 1..Len(xs)] ==
            IF i = 1 THEN 1
            ELSE IF StrLess(xs[scan[i - 1]], xs[i]) THEN i ELSE scan[i - 1]
    IN  scan[Len(xs)]

\* m.name.split('_')[3][:5]
AccToken(name) == Prefix(Split(name, "_")[4], 5)

\* _load_best_model: the exception it raises ("none": it returns) and the
\* file it selects.
load_best_model(files) ==
    IF \E i \in 1..Len(files) : Len(Split(files[i], "_")) < 4
    THEN [error |-> "IndexError", best_model_file |-> <<>>]
    ELSE IF Len(files) = 0
    THEN [error |-> "ValueError: attempt to get argmax of an empty sequence",
          best_model_file |-> <<>>]
    ELSE [error |-> "none",
          best_model_file |-> files[ArgMax([i \in 1..Len(files) |-> AccToken(files[i])])]]


\* name.split('.hdf5')[0]: the name up to the first occurrence of ".hdf5".
Hdf5 == <<".", "h", "d", "f", "5">>

StemOf(name) ==
    LET hits == {i \in 1..Len(name) :
                    /\ i + Len(Hdf5) - 1 <= Len(name)
                    /\ SubSeq(name, i, i + Len(Hdf5) - 1) = Hdf5}
    IN  IF hits = {} THEN name
        ELSE SubSeq(name, 1, (CHOOSE i \in hits : \A j \in hits : i <= j) - 1)

\* ----------------------------------------------------------------- state
VARIABLES
    ipython,            \* whether __IPYTHON__ is defined in the process
    model_files,        \* <job_dir>/models/**/*.hdf5, in glob order
    json_present,       \* which of the two json files exist in job_dir
    class_mapping_json, \* content of class_mapping.json
    test_samples_json,  \* content of test_samples.json
    phase,              \* "new", "ready" (constructed) or "failed"
    self,               \* the Evaluation object's attributes
    fs,                 \* paths written under job_dir
    trace,              \* what the last top-level call did, in order
    ret,                \* what the last top-level call returned
    error               \* the exception that left the last top-level call

vars == <<ipython, model_files, json_present, class_mapping_json,
          test_samples_json, phase, self, fs, trace, ret, error>>

env == <<ipython, model_files, json_present, class_mapping_json, test_samples_json>>

\* ---------------------------------------------------------------- inputs
\* Class counts: the small ones, the ceiling and one above it.
ClassCounts == (1..MaxClasses) \cup {MAX_N_CLASSES, MAX_N_CLASSES + 1}

\* The labels test samples and predictions are drawn from: all of them for a
\* small class count, the lowest and the highest otherwise.
LabelPool(n) == IF n <= MaxClasses THEN 0..(n - 1) ELSE {0, n - 1}

\* class_mapping.json: {"0": name0, "1": name1, ...}
ClassMappingOf(n) ==
    [k \in {ToString(i) : i \in 0..(n - 1)} |-> "class" \o k]

\* test_samples.json: a non-empty ordered list of {image_id, label}.
SampleSeqs(n) ==
    UNION {{[i \in 1..k |-> [image_id |-> "img" \o ToString(i), label |-> ls[i]]] :
               ls \in [1..k -> LabelPool(n)]} : k \in 1..MaxSamples}

FileSeqs ==
    UNION {{fsq \in [1..k -> FileNames] :
               \A i, j \in 1..k : i # j => fsq[i] # fsq[j]} : k \in 0..MaxFiles}

JsonFiles == {"test_samples.json", "class_mapping.json"}

NoObject == [a \in {} |-> TRUE]

NoCalls == <<>>

Init ==
    /\ ipython \in BOOLEAN
    /\ \/ /\ model_files \in FileSeqs
          /\ json_present = JsonFiles
          /\ class_mapping_json = ClassMappingOf(1)
          /\ test_samples_json \in SampleSeqs(1)
          /\ Len(test_samples_json) = 1
       \/ /\ model_files = <<File_085a>>
          /\ json_present = JsonFiles
          /\ \E n \in ClassCounts :
                /\ class_mapping_json = ClassMappingOf(n)
                /\ test_samples_json \in SampleSeqs(n)
       \/ /\ model_files = <<File_085a>>
          /\ json_present \in (SUBSET JsonFiles) \ {JsonFiles}
          /\ class_mapping_json = ClassMappingOf(1)
          /\ test_samples_json \in SampleSeqs(1)
          /\ Len(test_samples_json) = 1
    /\ phase = "new"
    /\ self = NoObject
    /\ fs = {}
    /\ trace = NoCalls
    /\ ret = <<>>
    /\ error = "none"

\* ------------------------------------------------------------ call records
\* One entry of `trace`: the method, how it ended ("ok", "skipped": the
\* class-count gate returned early, "raised"), the exception, and what it
\* did itself: info messages logged, figures created, metric computations,
\* images loaded, and the data it handed to the plot.
Call(op, outcome, err, logs, figures, computed, images, data) ==
    [op |-> op, outcome |-> outcome, error |-> err, logs |-> logs,
     figures |-> figures, computed |-> computed, images |-> images,
     data |-> data]

Has(s, attr) == attr \in DOMAIN s

\* self.a = v for every a of `new`: an assigned attribute takes the new value.
Assign(s, new) == new @@ s

\* -------------------------------------------------------------- construction
\* _determine_plot_params: font sizes, and the mode from __IPYTHON__.
determine_plot_params(s, in_ipython) ==
    Assign(s, [fontsize_title |-> IF s.n_classes < 4 THEN 16 ELSE 18,
          fontsize_label |-> IF s.n_classes < 4 THEN 12 ELSE 14,
          fontsize_ticks |-> IF s.n_classes < 4 THEN 9 ELSE 12,
          show_plots |-> in_ipython,
          save_plots |-> ~in_ipython])

\* _create_evaluation_dir: only when save_plots; names the directory after
\* the checkpoint and creates it.
EvaluationDirName(s) == <<"evaluation_">> \o StemOf(s.best_model_file)

create_evaluation_dir_always(s) ==
    Assign(s, [evaluation_dir |-> EvaluationDirName(s)])

create_evaluation_dir(s) ==
    IF s.save_plots
    THEN Assign(s, [evaluation_dir |-> EvaluationDirName(s)])
    ELSE s

\* Evaluation.__init__
Evaluation_init ==
    /\ phase = "new"
    /\ ret' = <<>>
    /\ UNCHANGED env
    /\ IF "test_samples.json" \notin json_present
       THEN /\ phase' = "failed"
            /\ error' = "FileNotFoundError: test_samples.json"
            /\ trace' = <<Call("load_json", "raised", error', 0, 0, 0, 0, <<>>)>>
            /\ UNCHANGED <<self, fs>>
       ELSE IF "class_mapping.json" \notin json_present
       THEN /\ phase' = "failed"
            /\ error' = "FileNotFoundError: class_mapping.json"
            /\ trace' = <<Call("load_json", "raised", error', 0, 0, 0, 0, <<>>)>>
            /\ UNCHANGED <<self, fs>>
       ELSE
        LET n  == Cardinality(DOMAIN class_mapping_json)
            s0 == [samples_test |-> test_samples_json,
                   class_mapping |-> class_mapping_json,
                   n_classes |-> n,
                   classes |-> [i \in 1..n |-> class_mapping_json[ToString(i - 1)]],
                   y_true |-> [i \in 1..Len(test_samples_json) |->
                                  test_samples_json[i].label]]
            s1 == determine_plot_params(s0, ipython)
            lb == load_best_model(model_files)
            s2 == Assign(s1, [best_model_file |-> lb.best_model_file])
            s3 == create_evaluation_dir(s2)
        IN  IF lb.error # "none"
            THEN /\ phase' = "failed"
                 /\ error' = lb.error
                 /\ trace' = <<Call("_determine_plot_params", "ok", "none", 0, 0, 0, 0, <<>>),
                               Call("_load_best_model", "raised", lb.error, 1, 0, 0, 0, <<>>)>>
                 /\ UNCHANGED <<self, fs>>
            ELSE /\ phase' = "ready"
                 /\ error' = "none"
                 /\ self' = s3
                 /\ fs' = IF Has(s3, "evaluation_dir")
                          THEN fs \cup {<<s3.evaluation_dir>>}
                          ELSE fs
                 /\ trace' = <<Call("_determine_plot_params", "ok", "none", 0, 0, 0, 0, <<>>),
                               Call("_load_best_model", "ok", "none", 2, 0, 0, 0, <<>>),
                               Call("_create_evaluation_dir", "ok", "none", 0, 0, 0, 0, <<>>)>>

\* ---------------------------------------------------------------- inference
\* predictions_dist: one row of class probabilities per test sample.
OneHot(n, k) == [j \in 1..n |-> IF j = k + 1 THEN 1 ELSE 0]

PredictionDists(s) ==
    [1..Len(s.samples_test) -> {OneHot(s.n_classes, k) : k \in LabelPool(s.n_classes)}]

\* np.argmax(row): the index (from 0) of the first maximum.
RowArgMax(row) ==
    (CHOOSE j \in 1..Len(row) :
        /\ \A m \in 1..Len(row) : row[m] <= row[j]
        /\ \A m \in 1..(j - 1) : row[m] < row[j]) - 1

\* _get_probabilities_prediction
get_probabilities_prediction(predictions_dist) ==
    [i \in 1..Len(predictions_dist) |->
        predictions_dist[i][RowArgMax(predictions_dist[i]) + 1]]

\* _make_prediction_on_test_set, for the distributions the classifier returns.
make_prediction_on_test_set(s, predictions_dist) ==
    [call |-> Call("_make_prediction_on_test_set", "ok", "none", 0, 0, 0, 0, <<>>),
     self |-> Assign(s, [classifier |-> "ImageClassifier",
                         data_generator |-> "ValDataGenerator",
                         y_pred |-> [i \in 1..Len(predictions_dist) |->
                                        RowArgMax(predictions_dist[i])],
                         y_pred_prob |-> get_probabilities_prediction(predictions_dist)])]

\* ------------------------------------------------------------------ plots
\* The class-count gate shared by the plotting methods.
AboveCeilingInclusive(s) == s.n_classes >= MAX_N_CLASSES

AboveCeiling(s) == s.n_classes > MAX_N_CLASSES

\* The assertion that opens every plotting method.
PlotAssertNeverFails(s) == FALSE

PlotAssertFails(s) == ~s.show_plots

\* np.bincount(y): counts of 0..max(y), for a non-empty y.
Max(S) == CHOOSE x \in S : \A y \in S : y <= x

Range(f) == {f[i] : i \in DOMAIN f}

bincount(y) ==
    [v \in 1..(Max(Range(y)) + 1) |-> Cardinality({i \in 1..Len(y) : y[i] = v - 1})]

\* _plot_test_set_distribution.  plt.bar broadcasts x (n_classes ticks) and
\* the heights: equal lengths pair up, a single height is repeated, anything
\* else is a ValueError (after the figure was created).  data: the heights
\* of the bars drawn, by class index.
plot_test_set_distribution(s) ==
    LET op == "_plot_test_set_distribution"
        y_values == bincount(s.y_true)
    IN  IF PlotAssertFails(s)
        THEN Call(op, "raised", "AssertionError", 0, 0, 0, 0, <<>>)
        ELSE IF AboveCeiling(s)
        THEN Call(op, "skipped", "none", 1, 0, 0, 0, <<>>)
        ELSE IF Len(y_values) = s.n_classes
        THEN Call(op, "ok", "none", 0, 1, 1, 0, y_values)
        ELSE IF Len(y_values) = 1
        THEN Call(op, "ok", "none", 0, 1, 1, 0, [v \in 1..s.n_classes |-> y_values[1]])
        ELSE Call(op, "raised", "ValueError: shape mismatch", 0, 1, 1, 0, <<>>)

\* _plot_classification_report.  It sets self.accuracy (kept here as the
\* pair <<correct, total>>) before classification_report runs, which raises
\* when the labels present in y_true and y_pred are not n_classes many.
plot_classification_report(s) ==
    LET op == "_plot_classification_report"
        hits == {i \in 1..Len(s.y_true) : s.y_true[i] = s.y_pred[i]}
        s1 == Assign(s, [accuracy |-> <<Cardinality(hits), Len(s.y_true)>>])
        present == Range(s.y_true) \cup Range(s.y_pred)
    IN  IF PlotAssertFails(s)
        THEN [call |-> Call(op, "raised", "AssertionError", 0, 0, 0, 0, <<>>), self |-> s]
        ELSE IF AboveCeiling(s)
        THEN [call |-> Call(op, "skipped", "none", 1, 0, 0, 0, <<>>), self |-> s]
        ELSE IF ~Has(s, "y_pred")
        THEN [call |-> Call(op, "raised", "AttributeError: y_pred", 0, 0, 0, 0, <<>>),
              self |-> s]
        ELSE IF Cardinality(present) # s.n_classes
        THEN [call |-> Call(op, "raised", "ValueError: target_names", 0, 0, 2, 0, <<>>),
              self |-> s1]
        ELSE [call |-> Call(op, "ok", "none", 0, 1, 2, 0, s1.accuracy), self |-> s1]

\* _plot_confusion_matrix.  data: the title of the variant plotted.
plot_confusion_matrix(s, precision) ==
    LET op == IF precision THEN "_plot_confusion_matrix(precision)"
                           ELSE "_plot_confusion_matrix"
    IN  IF PlotAssertFails(s)
        THEN Call(op, "raised", "AssertionError", 0, 0, 0, 0, <<>>)
        ELSE IF AboveCeiling(s)
        THEN Call(op, "skipped", "none", 1, 0, 0, 0, <<>>)
        ELSE IF ~Has(s, "y_pred")
        THEN Call(op, "raised", "AttributeError: y_pred", 0, 0, 0, 0, <<>>)
        ELSE Call(op, "ok", "none", 0, 1, 1, 0,
                  IF precision THEN "Confusion matrix (precision)"
                               ELSE "Confusion matrix (recall)")

\* --------------------------------------------------------------- examples
\* The label argument: an int or a str.
IntLabel(k) == [type |-> "int", val |-> k]

StrLabel(name) == [type |-> "str", val |-> name]

\* int(key) for a key of the class mapping.
KeyToInt(key, n) == CHOOSE i \in 0..(n - 1) : ToString(i) = key

\* One entry of a correct/wrong list: [i, image, sample], i from 0.
Entry(s, i) ==
    [pos |-> i - 1,
     image |-> <<s.samples_test[i].image_id, 224, 224>>,
     sample |-> s.samples_test[i]]

Positions(s) == [i \in 1..Len(s.samples_test) |-> i]

\* {v: k for k, v in class_mapping.items()}[name]: the last key, in the
\* mapping's order, whose value is the name.
InverseKey(s, name) ==
    LET ks == {k \in DOMAIN s.class_mapping : s.class_mapping[k] = name}
    IN  CHOOSE k \in ks : \A k2 \in ks :
            KeyToInt(k2, s.n_classes) <= KeyToInt(k, s.n_classes)

PartitionByPrediction(s, lab) ==
    LET InClass(i) == s.y_true[i] = s.y_pred[i]
        Right(i) == InClass(i) /\ s.y_pred[i] = lab
        Wrong(i) == ~InClass(i) /\ s.y_pred[i] = lab
        idx(P(_)) == SelectSeq(Positions(s), P)
    IN  [correct |-> [j \in 1..Len(idx(Right)) |-> Entry(s, idx(Right)[j])],
         wrong |-> [j \in 1..Len(idx(Wrong)) |-> Entry(s, idx(Wrong)[j])]]

PartitionByTruth(s, lab) ==
    LET Right(i) == s.y_true[i] = lab /\ s.y_true[i] = s.y_pred[i]
        Wrong(i) == s.y_true[i] = lab /\ s.y_true[i] # s.y_pred[i]
        idx(P(_)) == SelectSeq(Positions(s), P)
    IN  [correct |-> [j \in 1..Len(idx(Right)) |-> Entry(s, idx(Right)[j])],
         wrong |-> [j \in 1..Len(idx(Wrong)) |-> Entry(s, idx(Wrong)[j])]]

\* get_correct_wrong_examples(label): the exception, or the two lists and
\* the number of images loaded.
get_correct_wrong_examples(s, label) ==
    LET unknown == label.type = "str" /\ label.val \notin Range(s.class_mapping)
        lab == IF label.type = "str"
               THEN KeyToInt(InverseKey(s, label.val), s.n_classes)
               ELSE label.val
    IN  IF unknown
        THEN [error |-> "KeyError", correct |-> <<>>, wrong |-> <<>>, images |-> 0]
        ELSE IF lab \notin Range(s.y_true)
        THEN [error |-> "none", correct |-> <<>>, wrong |-> <<>>, images |-> 0]
        ELSE IF ~Has(s, "y_pred")
        THEN [error |-> "AttributeError: y_pred", correct |-> <<>>, wrong |-> <<>>,
              images |-> 0]
        ELSE LET r == PartitionByTruth(s, lab)
             IN  [error |-> "none", correct |-> r.correct, wrong |-> r.wrong,
                  images |-> Len(r.correct) + Len(r.wrong)]

Min2(a, b) == IF a < b THEN a ELSE b

\* visualize_images: no figure for an empty list.  data: rows and columns
\* of the grid.
visualize_images(s, image_list, show_heatmap, n_plot) ==
    IF Len(image_list) = 0
    THEN Call("visualize_images", "ok", "none", 0, 0, 0, 0, "Empty list.")
    ELSE Call("visualize_images", "ok", "none", 0, 1, 0, 0,
              <<Min2(n_plot, Len(image_list)), IF show_heatmap THEN 2 ELSE 1>>)

\* _plot_correct_wrong_examples: the lookup for every class index in turn,
\* each followed by the two galleries.  data: the <<correct, wrong>> pair of
\* every class, by class index.
plot_correct_wrong_examples(s) ==
    LET op == "_plot_correct_wrong_examples"
        n == Len(s.classes)
        res == [i \in 1..n |-> get_correct_wrong_examples(s, IntLabel(i - 1))]
        shown == {<<i, w>> \in (1..n) \X {"correct", "wrong"} :
                     visualize_images(s, res[i][w], TRUE, 3).figures > 0}
    IN  IF PlotAssertFails(s)
        THEN Call(op, "raised", "AssertionError", 0, 0, 0, 0, <<>>)
        ELSE IF AboveCeiling(s)
        THEN Call(op, "skipped", "none", 1, 0, 0, 0, <<>>)
        ELSE IF \E i \in 1..n : res[i].error # "none"
        THEN Call(op, "raised", "AttributeError: y_pred", 0, 0, 0, 0, <<>>)
        ELSE Call(op, "ok", "none", 0, Cardinality(shown), 0,
                  Cardinality({<<i, j, w>> \in (1..n) \X (1..Len(s.samples_test))
                                               \X {"correct", "wrong"} :
                                  j <= Len(res[i][w])}),
                  [i \in 1..n |-> <<res[i].correct, res[i].wrong>>])

\* ----------------------------------------------------------------- report
ReportFile(s, name) == <<s.evaluation_dir, name>>

\* The assertion that opens _create_report.
ReportAssertFails(s) == ~s.save_plots

\* Whether the PDF branch can read the notebook node `nb`: it is bound only
\* inside the HTML branch.
NbBound(report_html) == report_html

\* _create_report: the call record and the files it wrote.  data: the two
\* flags and the names of the files written.
create_report(s, report_html, report_pdf) ==
    LET op == "_create_report"
        notebook == {"evaluation_report.ipynb"}
        html == IF report_html THEN {"evaluation_report.html"} ELSE {}
        pdf == IF report_pdf /\ NbBound(report_html)
               THEN {"evaluation_report.pdf"} ELSE {}
        logs == (IF report_html THEN 1 ELSE 0) + (IF report_pdf THEN 1 ELSE 0)
        names == notebook \cup html \cup pdf
        data == [report_html |-> report_html, report_pdf |-> report_pdf,
                 written |-> names]
    IN  IF ReportAssertFails(s)
        THEN [call |-> Call(op, "raised", "AssertionError", 0, 0, 0, 0,
                           [report_html |-> report_html, report_pdf |-> report_pdf,
                            written |-> {}]),
              written |-> {}]
        ELSE IF report_pdf /\ ~NbBound(report_html)
        THEN [call |-> Call(op, "raised", "UnboundLocalError: nb", logs, 0, 0, 0, data),
              written |-> {ReportFile(s, f) : f \in names}]
        ELSE [call |-> Call(op, "ok", "none", logs, 0, 0, 0, data),
              written |-> {ReportFile(s, f) : f \in names}]

\* -------------------------------------------------------------------- run
Log(msg) == Call("logger.info", "ok", "none", 1, 0, 0, 0, msg)

\* The calls of a sequence up to and including the first that raised.
UpToRaise(calls) ==
    LET bad == {i \in 1..Len(calls) : calls[i].outcome = "raised"}
    IN  IF bad = {} THEN calls
        ELSE SubSeq(calls, 1, CHOOSE i \in bad : \A j \in bad : i <= j)

RaisedIn(calls) ==
    IF calls # <<>> /\ calls[Len(calls)].outcome = "raised"
    THEN calls[Len(calls)].error
    ELSE "none"

\* run() in ipython: prediction, then the five plotting steps, each behind
\* its log line.  The result: the calls made and the object afterwards.
\* (Intermediate objects are bound through singleton sets, so that each is
\* computed once.)
ShowPlotsSteps(mp, cr) ==
    LET calls == UpToRaise(
            <<Log("Make prediction on test set"), mp.call,
              Log("Plot distribution on test set"), plot_test_set_distribution(mp.self),
              Log("Plot classification report"), cr.call,
              Log("Plot confusion matrix (recall)"), plot_confusion_matrix(cr.self, FALSE),
              Log("Plot confusion matrix (precision)"), plot_confusion_matrix(cr.self, TRUE),
              Log("Plot correct and wrong examples"), plot_correct_wrong_examples(cr.self)>>)
    IN  [calls |-> calls,
         self |-> IF Len(calls) >= 6 THEN cr.self ELSE mp.self,
         written |-> {}]

run_show_plots(s, predictions_dist) ==
    CHOOSE r \in {ShowPlotsSteps(mp, cr) :
                    <<mp, cr>> \in {<<m, plot_classification_report(m.self)>> :
                                      m \in {make_prediction_on_test_set(s, predictions_dist)}}} :
        TRUE

\* run() outside ipython: the report.
run_save_plots(s, report_html, report_pdf) ==
    CHOOSE r \in {[calls |-> <<Log("Create Jupyter Notebook (this may take a while)"),
                              rep.call>>,
                   self |-> s,
                   written |-> rep.written] :
                    rep \in {create_report(s, report_html, report_pdf)}} :
        TRUE

\* run(): `if self.show_plots` then `if self.save_plots`; an exception in the
\* first block leaves run() before the second.
RunSecond(first, report_html, report_pdf) ==
    CHOOSE r \in {[calls |-> first.calls \o second.calls,
                   self |-> second.self,
                   written |-> first.written \cup second.written] :
                    second \in {IF first.self.save_plots /\ RaisedIn(first.calls) = "none"
                                THEN run_save_plots(first.self, report_html, report_pdf)
                                ELSE [calls |-> <<>>, self |-> first.self, written |-> {}]}} :
        TRUE

run(s, report_html, report_pdf, predictions_dist) ==
    CHOOSE r \in {RunSecond(first, report_html, report_pdf) :
                    first \in {IF s.show_plots
                               THEN run_show_plots(s, predictions_dist)
                               ELSE [calls |-> <<>>, self |-> s, written |-> {}]}} :
        TRUE

\* ---------------------------------------------------------------- actions
NoReturn == <<>>

\* A call starts when the caller holds no result of an earlier call.
Idle == trace = NoCalls

\* One top-level call that made `calls`, left the object as `s`, wrote
\* `written` and returned `r`.
Finish(calls, s, written, r) ==
    /\ trace' = calls
    /\ error' = RaisedIn(calls)
    /\ self' = s
    /\ fs' = fs \cup written
    /\ ret' = r
    /\ UNCHANGED <<env, phase>>

\* The caller takes the result (or the exception) of the call that ended.
Return ==
    /\ ~Idle
    /\ trace' = NoCalls
    /\ ret' = NoReturn
    /\ error' = "none"
    /\ UNCHANGED <<env, phase, self, fs>>

\* run(report_html, report_pdf).  Predictions are drawn only when run()
\* predicts, and the flags vary only when run() reads them.
Run ==
    /\ phase = "ready" /\ Idle
    /\ \E report_html, report_pdf \in IF self.save_plots THEN BOOLEAN ELSE {FALSE} :
       \E d \in IF self.show_plots THEN PredictionDists(self) ELSE {<<>>} :
       \E r \in {run(self, report_html, report_pdf, d)} :
          Finish(<<Call("run", "called", "none", 0, 0, 0, 0, <<>>)>> \o r.calls,
                 r.self, r.written, NoReturn)

MakePrediction ==
    /\ phase = "ready" /\ Idle
    /\ \E d \in PredictionDists(self) :
       \E r \in {make_prediction_on_test_set(self, d)} :
          Finish(<<r.call>>, r.self, {}, NoReturn)

PlotTestSetDistribution ==
    /\ phase = "ready" /\ Idle
    /\ Finish(<<plot_test_set_distribution(self)>>, self, {}, NoReturn)

PlotClassificationReport ==
    /\ phase = "ready" /\ Idle
    /\ \E r \in {plot_classification_report(self)} :
          Finish(<<r.call>>, r.self, {}, NoReturn)

PlotConfusionMatrix ==
    /\ phase = "ready" /\ Idle
    /\ \E precision \in BOOLEAN :
          Finish(<<plot_confusion_matrix(self, precision)>>, self, {}, NoReturn)

PlotCorrectWrongExamples ==
    /\ phase = "ready" /\ Idle
    /\ Finish(<<plot_correct_wrong_examples(self)>>, self, {}, NoReturn)

CreateReport ==
    /\ phase = "ready" /\ Idle
    /\ \E report_html, report_pdf \in BOOLEAN :
       \E r \in {create_report(self, report_html, report_pdf)} :
          Finish(<<r.call>>, self, r.written, NoReturn)

\* The labels example lookup is called with: in range, just out of range,
\* a known and an unknown class name.
LabelArgs(s) ==
    {IntLabel(k) : k \in {0, s.n_classes - 1, s.n_classes}}
    \cup {StrLabel(s.classes[s.n_classes]), StrLabel("nosuchclass")}

GetCorrectWrongExamples ==
    /\ phase = "ready" /\ Idle
    /\ \E label \in LabelArgs(self) :
       \E r \in {get_correct_wrong_examples(self, label)} :
          Finish(<<Call("get_correct_wrong_examples",
                        IF r.error = "none" THEN "ok" ELSE "raised",
                        r.error, 0, 0, 0, r.images, label)>>,
                 self, {},
                 IF r.error = "none" THEN <<r.correct, r.wrong>> ELSE NoReturn)

Next ==
    \/ Evaluation_init
    \/ Return
    \/ Run
    \/ MakePrediction
    \/ PlotTestSetDistribution
    \/ PlotClassificationReport
    \/ PlotConfusionMatrix
    \/ PlotCorrectWrongExamples
    \/ CreateReport
    \/ GetCorrectWrongExamples

Spec == Init /\ [][Next]_vars


\* ------------------------------------------------------------ properties
Constructed == phase = "ready"

IsMethodCall(c) == c.op \notin {"logger.info", "run"}

\* The methods a top-level call invoked, in order.
MethodsCalled == LET calls == SelectSeq(trace, IsMethodCall)
                 IN  [i \in 1..Len(calls) |-> calls[i].op]

RunReturned == ~Idle /\ trace[1].op = "run"

PlotMethods == {"_plot_test_set_distribution", "_plot_classification_report",
                "_plot_confusion_matrix", "_plot_confusion_matrix(precision)",
                "_plot_correct_wrong_examples"}

TraceCalls == {trace[i] : i \in 1..Len(trace)}

\* C1: every run() in ipython predicts once and then issues the five
\* plotting steps in their fixed order, without the report; every run()
\* outside ipython issues the report once and no plotting step.
C1_RunPipeline ==
    RunReturned =>
        IF self.show_plots
        THEN MethodsCalled = <<"_make_prediction_on_test_set",
                               "_plot_test_set_distribution",
                               "_plot_classification_report",
                               "_plot_confusion_matrix",
                               "_plot_confusion_matrix(precision)",
                               "_plot_correct_wrong_examples">>
        ELSE MethodsCalled = <<"_create_report">>

\* C2: after construction exactly one of show_plots and save_plots is true,
\* with the value the ipython check gave at construction, whatever was called
\* since; the evaluation_dir attribute exists iff save_plots.
C2_ModeFixed ==
    Constructed =>
        /\ self.show_plots = ipython
        /\ self.save_plots = ~ipython
        /\ self.show_plots # self.save_plots
        /\ Has(self, "evaluation_dir") <=> self.save_plots

C2_Witness ==
    /\ RunReturned
    /\ self.save_plots
    /\ Has(self, "evaluation_dir")
    /\ <<self.evaluation_dir, "evaluation_report.ipynb">> \in fs

\* C3: outside ipython, run(report_html, report_pdf) ends without error for
\* every combination of the flags, writes the notebook, the HTML file iff
\* report_html and the PDF file iff report_pdf.
C3_ReportArtifacts ==
    (RunReturned /\ self.save_plots) =>
        LET c == trace[Len(trace)]
        IN  /\ c.op = "_create_report"
            /\ error = "none"
            /\ "evaluation_report.ipynb" \in c.data.written
            /\ "evaluation_report.html" \in c.data.written <=> c.data.report_html
            /\ "evaluation_report.pdf" \in c.data.written <=> c.data.report_pdf

\* C4: a plotting method called outside ipython raises the assertion before
\* it logs, computes or draws anything, and _create_report called in ipython
\* raises it before the notebook runs or any file is written.
C4_WrongModeFailsFast ==
    \A c \in TraceCalls :
        /\ (Constructed /\ c.op \in PlotMethods /\ ~self.show_plots) =>
              /\ c.outcome = "raised" /\ c.error = "AssertionError"
              /\ c.logs = 0 /\ c.figures = 0 /\ c.computed = 0 /\ c.images = 0
              /\ error = "AssertionError"
        /\ (Constructed /\ c.op = "_create_report" /\ ~self.save_plots) =>
              /\ c.outcome = "raised" /\ c.error = "AssertionError"
              /\ c.logs = 0 /\ c.data.written = {}
              /\ fs = {}
              /\ error = "AssertionError"

C4_Witness ==
    /\ Constructed /\ ~Idle
    /\ trace[1].op = "_plot_correct_wrong_examples"
    /\ ~self.show_plots
    /\ Has(self, "y_pred")

\* C5: the selected checkpoint carries a token (the first 5 characters of the
\* 4th underscore-delimited field) that no other file's token exceeds, and
\* every file enumerated before it carries a strictly smaller one.
TokenOfName(name) == Prefix(Split(name, "_")[4], 5)

C5_BestModelSelected ==
    Constructed =>
        \E k \in 1..Len(model_files) :
            /\ model_files[k] = self.best_model_file
            /\ \A j \in 1..Len(model_files) :
                  ~StrLess(TokenOfName(model_files[k]), TokenOfName(model_files[j]))
            /\ \A j \in 1..(k - 1) :
                  StrLess(TokenOfName(model_files[j]), TokenOfName(model_files[k]))

C5_Witness ==
    /\ Constructed
    /\ Len(model_files) = 2
    /\ TokenOfName(model_files[1]) = TokenOfName(model_files[2])
    /\ model_files[1] # model_files[2]
    /\ self.best_model_file = model_files[1]

\* C6: construction on a models directory without checkpoints fails with an
\* explicit error, not with the failure of the selection on an empty list,
\* and no object exists to predict with.
C6_NoCheckpointsExplicit ==
    (model_files = <<>> /\ json_present = JsonFiles /\ phase # "new" /\ ~Idle) =>
        /\ phase = "failed"
        /\ self = NoObject
        /\ error # "none"
        /\ error # "ValueError: attempt to get argmax of an empty sequence"

\* C7: in ipython, with more than 20 classes every gated plotting method
\* returns early having logged exactly one message and created no figure,
\* computed no metric and loaded no image; with 20 classes or fewer it does
\* not return early.
C7_CeilingSkips ==
    \A c \in TraceCalls :
        (Constructed /\ c.op \in PlotMethods /\ self.show_plots) =>
            IF self.n_classes > 20
            THEN /\ c.outcome = "skipped"
                 /\ c.logs = 1 /\ c.figures = 0 /\ c.computed = 0 /\ c.images = 0
            ELSE c.outcome # "skipped"

C7_Witness ==
    /\ RunReturned
    /\ self.show_plots
    /\ self.n_classes = 21
    /\ Len(MethodsCalled) = 6
    /\ \A c \in TraceCalls : c.op \in PlotMethods => c.outcome = "skipped"

\* C8: once predictions exist, the lookups for the labels 0..n_classes-1
\* together return every test sample position exactly once: in the correct
\* list of its true label when the prediction equals it, in the wrong list of
\* its true label otherwise; every list is in test-set order and the lists
\* hold len(samples_test) entries in all.
LookupAll == [l \in 0..(self.n_classes - 1) |->
                 get_correct_wrong_examples(self, IntLabel(l))]

Listed(r, i) ==
    {<<l, w, j>> \in (DOMAIN r) \X {"correct", "wrong"} \X (1..Len(self.samples_test)) :
        j <= Len(r[l][w]) /\ r[l][w][j].pos = i - 1}

EntriesIn(r) ==
    {<<l, w, j>> \in (DOMAIN r) \X {"correct", "wrong"} \X (1..Len(self.samples_test)) :
        j <= Len(r[l][w])}

C8_ExamplesPartition ==
    (Constructed /\ Has(self, "y_pred")) =>
        \E r \in {LookupAll} :
            /\ \A l \in DOMAIN r : r[l].error = "none"
            /\ \A i \in 1..Len(self.samples_test) :
                  /\ Cardinality(Listed(r, i)) = 1
                  /\ \A e \in Listed(r, i) :
                        /\ e[1] = self.y_true[i]
                        /\ e[2] = IF self.y_true[i] = self.y_pred[i]
                                  THEN "correct" ELSE "wrong"
            /\ \A l \in DOMAIN r : \A w \in {"correct", "wrong"} :
                  \A j \in 1..(Len(r[l][w]) - 1) : r[l][w][j].pos < r[l][w][j + 1].pos
            /\ \A l \in DOMAIN r : \A w \in {"correct", "wrong"} :
                  \A j \in 1..Len(r[l][w]) :
                      r[l][w][j].sample = self.samples_test[r[l][w][j].pos + 1]
            /\ Cardinality(EntriesIn(r)) = Len(self.samples_test)
            /\ \A c \in TraceCalls :
                  (c.op = "_plot_correct_wrong_examples" /\ c.outcome = "ok") =>
                      c.data = [i \in 1..self.n_classes |->
                                   <<r[i - 1].correct, r[i - 1].wrong>>]

C8_Witness ==
    /\ Constructed /\ ~Idle
    /\ trace[Len(trace)].op = "_plot_correct_wrong_examples"
    /\ trace[Len(trace)].outcome = "ok"
    /\ Len(self.samples_test) = 2
    /\ \E i \in 1..self.n_classes :
          \/ Len(trace[Len(trace)].data[i][1]) = 2
          \/ Len(trace[Len(trace)].data[i][2]) = 2

\* C9: a lookup with a class name that is not in the mapping, or with an
\* index outside 0..n_classes-1, ends in an error and returns nothing, and
\* the object is as it was.
C9_BadLabelReported ==
    (Constructed /\ ~Idle /\ trace[1].op = "get_correct_wrong_examples") =>
        LET label == trace[1].data
            bad == \/ label.type = "str" /\ label.val \notin Range(self.class_mapping)
                   \/ label.type = "int" /\ label.val \notin 0..(self.n_classes - 1)
        IN  bad => /\ trace[1].outcome = "raised"
                   /\ error # "none"
                   /\ ret = NoReturn

\* C10: in ipython with at most 20 classes, the distribution plot draws
\* n_classes bars, bar c as high as the number of test samples labelled c,
\* whichever classes have samples.
C10_DistributionBars ==
    \A c \in TraceCalls :
        (Constructed /\ c.op = "_plot_test_set_distribution" /\ self.show_plots
            /\ self.n_classes <= 20) =>
            /\ c.outcome = "ok"
            /\ Len(c.data) = self.n_classes
            /\ \A k \in 1..self.n_classes :
                  c.data[k] = Cardinality({i \in 1..Len(self.y_true) :
                                              self.y_true[i] = k - 1})

====
